---- MODULE Spec2Model ----
(***************************************************************************)
(* A model of path_finding_algorithms.py: the weighted Graph container,    *)
(* GraphProblem, the search-tree Node and the three graph searches         *)
(* (depth-first, breadth-first, best-first with greedy and A* as its two   *)
(* instantiations).  A behaviour builds a graph with connect1 calls,       *)
(* wraps an origin/goal pair in a GraphProblem, runs one search one loop   *)
(* iteration at a time, and then runs the same search once more on the     *)
(* same problem and the same Graph object.  Further specifications cover   *)
(* GraphProblem.h over a locations mapping (SpecH), the driver's loop over *)
(* the destinations (SpecDriver), Graph construction and connect           *)
(* (SpecGraph), load_graph_from_file (SpecLoad) and searches for a goal    *)
(* outside the graph (SpecFar).                                            *)
(***************************************************************************)
EXTENDS Integers, Sequences, FiniteSets, TLC

\* ------------------------------------------------------------------ bounds
NumNodes == 3        \* node identifiers are 1..NumNodes
MaxEdges == 3        \* connect1 calls made while the graph is built
MaxWeight == 3       \* edge weights are 0..MaxWeight
MaxH == 1            \* finite heuristic values are 0..MaxH
BigNodes == 5        \* node identifiers of the larger unit-weight graphs
BigEdges == 5        \* connect1 calls made while a larger graph is built
MaxCoord == 1        \* coordinates are 0..MaxCoord
MaxGoals == 2        \* a list of goals holds at most MaxGoals states
MaxCalls == 2        \* connect calls made on a constructed Graph
MaxEntries == 2      \* entries of the dict a Graph is constructed from
MaxLines == 2        \* lines of a file's Edges section

NodeIds == 1..NumNodes
Weights == 0..MaxWeight

\* np.inf, as a value outside the naturals; Add and Less give its arithmetic.
Inf == -1

VARIABLES
    graph_dict,   \* Graph.graph_dict: node -> sequence of <<neighbor, weight>> (dict order)
    graph0,       \* the adjacency as it was when the problem was constructed
    pc,           \* "load" | "start" | "loop" | "done", and the driver's
                  \* "driver" (at the head of its loop) | "end" | "aborted",
                  \* "graph" (a Graph constructed from a dict), and "file" |
                  \* "loaded" (a file read by load_graph_from_file)
    method,       \* "DFS" | "BFS" | "GBFS" | "AS" (the driver's method token)
    initial,      \* Problem.initial
    goal,         \* Problem.goal
    hfun,         \* the heuristic h handed to greedy / A* search: state -> value
    frontier,     \* the search's frontier (stack, deque or priority-queue heap)
    explored,     \* the search's explored set
    result,       \* what the search returned
    run,          \* 1 on the first run of the search, 2 on the repeated run
    first,        \* what the first run returned
    locations,    \* Graph.locations: node -> <<x, y>> (the empty mapping when absent)
    hcall,        \* the last call of GraphProblem.h: its arguments and its outcome
    destinations, \* runGraphSeacrh: the destinations the file lists, in order
    di,           \* runGraphSeacrh: how many destinations the loop has taken up
    outputs,      \* runGraphSeacrh: what was printed, one entry per destination
    directed,     \* Graph.directed
    calls,        \* the connect calls made on the constructed Graph
    file_nodes,   \* the file's Nodes section: <<node, coords>> line by line
    file_edges    \* the file's Edges section: <<n1, n2, cost>> line by line

\* what the searches neither read nor write
aux == <<locations, hcall, destinations, di, outputs, directed, calls, file_nodes,
         file_edges>>

vars == <<graph_dict, graph0, pc, method, initial, goal, hfun, frontier,
          explored, result, run, first, aux>>

\* ------------------------------------------------------- values and helpers
\* Python's None and "a value" as a sequence of length 0 or 1.
None == <<>>
Some(x) == <<x>>

\* float arithmetic with np.inf
Add(a, b) == IF a = Inf \/ b = Inf THEN Inf ELSE a + b
Less(a, b) == a # Inf /\ (b = Inf \/ a < b)

\* dict d with d[k] = v
DictSet(d, k, v) == [x \in (DOMAIN d) \cup {k} |-> IF x = k THEN v ELSE d[x]]

\* the keys of an inner dict, in insertion order
Keys(links) == [i \in 1..Len(links) |-> links[i][1]]

\* inner dict.get(b): the weight, or None
LinksGet(links, b) ==
    IF \E i \in 1..Len(links) : links[i][1] = b
    THEN Some(links[CHOOSE i \in 1..Len(links) : links[i][1] = b][2])
    ELSE None

\* inner dict with links[b] = w (an existing key keeps its place)
LinksSet(links, b, w) ==
    IF \E i \in 1..Len(links) : links[i][1] = b
    THEN [i \in 1..Len(links) |-> IF links[i][1] = b THEN <<b, w>> ELSE links[i]]
    ELSE Append(links, <<b, w>>)

\* ------------------------------------------------------------------- Graph
\* graph_dict.setdefault(a, {}) : the dict afterwards, and the value returned
SetDefault(d, a) == IF a \in DOMAIN d THEN d ELSE DictSet(d, a, <<>>)

\* Graph.connect1(A, B, distance): the graph_dict afterwards
connect1(d, A, B, distance) ==
    LET d1 == SetDefault(d, A)
    IN DictSet(d1, A, LinksSet(d1[A], B, distance))

\* Graph.get(a, ...): what the call does to graph_dict
get_effect(d, a) == SetDefault(d, a)

\* Graph.get(a): the links returned
get(d, a) == SetDefault(d, a)[a]

\* Graph.get(a, b): the distance or None
get2(d, a, b) == LinksGet(SetDefault(d, a)[a], b)

\* Graph.nodes()
nodes(d) ==
    LET s1 == DOMAIN d
        s2 == UNION {{d[a][i][1] : i \in 1..Len(d[a])} : a \in DOMAIN d}
    IN s1 \cup s2

\* the weight of edge a -> b in d, or None (no side effect: for stating properties)
Edge(d, a, b) == IF a \in DOMAIN d THEN LinksGet(d[a], b) ELSE None

\* ------------------------------------------------------------ GraphProblem
\* goal_test, were no state a goal
goal_test_never(state) == FALSE

\* Problem.goal_test with a single goal state
goal_test(state) == state = goal

\* GraphProblem.actions(A)
actions(d, A) == Keys(get(d, A))

\* GraphProblem.result(state, action)
Result(state, action) == action

\* x or np.inf, for x a distance or None
OrInf(x) == IF x = None \/ x[1] = 0 THEN Inf ELSE x[1]

\* GraphProblem.path_cost(cost_so_far, A, action, B)
path_cost(d, cost_so_far, A, action, B) == Add(cost_so_far, OrInf(get2(d, A, B)))

\* ------------------------------------------------------------------- Node
\* Node(state, parent, action, path_cost); parent is None or Some(node)
Node(state, parent, action, cost) ==
    [state |-> state, parent |-> parent, action |-> action, path_cost |-> cost,
     depth |-> IF parent = None THEN 0 ELSE parent[1].depth + 1]

\* child_node, were the child hung under the node's own parent
child_node_skipping(d, node, action) ==
    LET next_state == Result(node.state, action)
    IN Node(next_state, node.parent, Some(action),
            path_cost(d, node.path_cost, node.state, action, next_state))

\* Node.child_node(problem, action)
child_node(d, node, action) ==
    LET next_state == Result(node.state, action)
    IN Node(next_state, Some(node), Some(action),
            path_cost(d, node.path_cost, node.state, action, next_state))

\* Node.expand(problem)
expand(d, node) ==
    LET acts == actions(d, node.state)
    IN [i \in 1..Len(acts) |-> child_node(d, node, acts[i])]

\* Node.path(), as the sequence of the nodes' states
RECURSIVE path(_)
path(node) ==
    IF node.parent = None THEN <<node.state>>
    ELSE Append(path(node.parent[1]), node.state)

\* child in frontier, were nodes compared field by field and not by state
InList_identity(child, fr) == \E i \in 1..Len(fr) : fr[i] = child

\* Node.__eq__ against the members of a list or deque: child in frontier
InList(child, fr) == \E i \in 1..Len(fr) : fr[i].state = child.state

\* ------------------------------------------------------------ what returns
NoResult == [kind |-> "none", node |-> None, count |-> None]
\* return node, len(explored)
ReturnPair(node, expl) == [kind |-> "pair", node |-> Some(node), count |-> Some(Cardinality(expl))]
\* return node
ReturnNode(node) == [kind |-> "node", node |-> Some(node), count |-> None]
\* the count, were the state that ended the search counted as well
ReturnCount_plus1(expl) ==
    [kind |-> "count", node |-> None, count |-> Some(Cardinality(expl) + 1)]

\* return len(explored)
ReturnCount(expl) == [kind |-> "count", node |-> None, count |-> Some(Cardinality(expl))]

\* ------------------------------------------------------------------- Init
\* no call of h made yet
NoCall == [state |-> 0, list |-> FALSE, goals |-> <<>>, kind |-> "none", value |-> 0]

\* a Graph without locations, and h not called
InitAux ==
    /\ locations = <<>>
    /\ hcall = NoCall
    /\ destinations = <<>>
    /\ di = 0
    /\ outputs = <<>>
    /\ directed = TRUE
    /\ calls = 0
    /\ file_nodes = <<>>
    /\ file_edges = <<>>

Init ==
    /\ graph_dict = <<>>
    /\ graph0 = <<>>
    /\ pc = "load"
    /\ method = "DFS"
    /\ initial = 1
    /\ goal = 1
    /\ hfun = [n \in NodeIds |-> 0]
    /\ frontier = <<>>
    /\ explored = {}
    /\ result = NoResult
    /\ run = 1
    /\ first = NoResult
    /\ InitAux

\* the number of edges in d
EdgeCount(d) == Cardinality(UNION {{<<a, i>> : i \in 1..Len(d[a])} : a \in DOMAIN d})

\* load_graph_from_file's graph_map.connect1(n[0], n[1], cost) for one declared
\* edge (n0, n1): cost, with ids in 1..N, costs in W and at most E edges declared;
\* the edges dict holds each (n0, n1) once, and no edge from a node to itself
LoadEdge(N, E, W) ==
    /\ pc = "load"
    /\ EdgeCount(graph_dict) < E
    /\ \E n0 \in 1..N, n1 \in 1..N, cost \in W :
          /\ n0 # n1
          /\ Edge(graph_dict, n0, n1) = None
          /\ graph_dict' = connect1(graph_dict, n0, n1, cost)
    /\ graph0' = graph_dict'
    /\ UNCHANGED <<pc, method, initial, goal, hfun, frontier, explored, result, run, first>>
    /\ UNCHANGED aux

Connect1 == LoadEdge(NumNodes, MaxEdges, Weights)

\* the heuristics a caller may hand over: finite values, or np.inf everywhere
Heuristics == [NodeIds -> 0..MaxH] \cup {[n \in NodeIds |-> Inf]}

\* runGraphSeacrh: prob = GraphProblem(origin, goal, graph_map) and the method
\* chosen, for origins in O, goals in G and method tokens in M
GraphProblem(O, G, M) ==
    /\ pc = "load"
    /\ \E o \in O, g \in G, m \in M :
          /\ initial' = o
          /\ goal' = g
          /\ method' = m
          /\ IF m \in {"GBFS", "AS"}
             THEN hfun' \in Heuristics
             ELSE hfun' = hfun
    /\ pc' = "start"
    /\ UNCHANGED <<graph_dict, graph0, frontier, explored, result, run, first>>
    /\ UNCHANGED aux

NewProblem == GraphProblem(NodeIds, NodeIds, {"DFS", "BFS", "GBFS", "AS"})

\* the explored set, were it kept across calls and not created by each
NewExplored_stale == explored

\* explored = set(), at the head of each search
NewExplored == {}

\* the explored set, were the popped state not added to it
explored_add_forgotten(expl, state) == expl

\* explored.add(state)
explored_add(expl, state) == expl \cup {state}

\* ------------------------------------------------ depth_first_graph_search
\* frontier = [Node(problem.initial)]; explored = set()
DFS_Start ==
    /\ pc = "start"
    /\ method = "DFS"
    /\ frontier' = <<Node(initial, None, None, 0)>>
    /\ explored' = NewExplored
    /\ pc' = "loop"
    /\ UNCHANGED <<graph_dict, graph0, method, initial, goal, hfun, result, run, first>>
    /\ UNCHANGED aux

\* the extend, were children filtered against the frontier alone (tree search)
RECURSIVE DFS_extend_tree(_, _, _)
DFS_extend_tree(fr, children, expl) ==
    IF children = <<>> THEN fr
    ELSE LET child == Head(children)
         IN DFS_extend_tree(IF ~(\E i \in 1..Len(fr) : fr[i].state = child.state)
                            THEN Append(fr, child) ELSE fr,
                            Tail(children), expl)

\* frontier.extend(child for child in ... if child.state not in explored and child not in frontier)
RECURSIVE DFS_extend(_, _, _)
DFS_extend(fr, children, expl) ==
    IF children = <<>> THEN fr
    ELSE LET child == Head(children)
         IN DFS_extend(IF child.state \notin expl /\ ~InList(child, fr)
                       THEN Append(fr, child) ELSE fr,
                       Tail(children), expl)

\* the node taken and the stack left, were the top read and not removed
peek(fr) == [node |-> fr[Len(fr)], rest |-> fr]

\* frontier.pop(): the node returned and the stack left
pop(fr) == [node |-> fr[Len(fr)], rest |-> SubSeq(fr, 1, Len(fr) - 1)]

\* one pass of "while frontier:", or the return after it
DFS_Loop ==
    /\ pc = "loop"
    /\ method = "DFS"
    /\ IF frontier = <<>>
       THEN /\ result' = ReturnCount(explored)
            /\ pc' = "done"
            /\ UNCHANGED <<graph_dict, frontier, explored>>
       ELSE LET node == pop(frontier).node
                rest == pop(frontier).rest
            IN IF goal_test(node.state)
               THEN /\ result' = ReturnPair(node, explored)
                    /\ pc' = "done"
                    /\ frontier' = rest
                    /\ UNCHANGED <<graph_dict, explored>>
               ELSE /\ explored' = explored_add(explored, node.state)
                    /\ frontier' = DFS_extend(rest, expand(graph_dict, node), explored')
                    /\ graph_dict' = get_effect(graph_dict, node.state)
                    /\ UNCHANGED <<result, pc>>
    /\ UNCHANGED <<graph0, method, initial, goal, hfun, run, first>>
    /\ UNCHANGED aux

\* ---------------------------------------------- breadth_first_graph_search
\* node = Node(problem.initial); if problem.goal_test(node.state): return node
BFS_Start ==
    /\ pc = "start"
    /\ method = "BFS"
    /\ LET node == Node(initial, None, None, 0)
       IN IF goal_test(node.state)
          THEN /\ result' = ReturnNode(node)
               /\ pc' = "done"
               /\ UNCHANGED <<frontier, explored>>
          ELSE /\ frontier' = <<node>>
               /\ explored' = NewExplored
               /\ pc' = "loop"
               /\ UNCHANGED result
    /\ UNCHANGED <<graph_dict, graph0, method, initial, goal, hfun, run, first>>
    /\ UNCHANGED aux

\* the for loop, were the children enqueued without a goal test
RECURSIVE BFS_children_untested(_, _, _)
BFS_children_untested(fr, children, expl) ==
    IF children = <<>> THEN [found |-> None, frontier |-> fr]
    ELSE LET child == Head(children)
         IN IF child.state \notin expl /\ ~InList(child, fr)
            THEN BFS_children_untested(Append(fr, child), Tail(children), expl)
            ELSE BFS_children_untested(fr, Tail(children), expl)

\* the for loop over node.expand(problem): the child returned (or None) and the
\* deque as the loop leaves it
RECURSIVE BFS_children(_, _, _)
BFS_children(fr, children, expl) ==
    IF children = <<>> THEN [found |-> None, frontier |-> fr]
    ELSE LET child == Head(children)
         IN IF child.state \notin expl /\ ~InList(child, fr)
            THEN IF goal_test(child.state)
                 THEN [found |-> Some(child), frontier |-> fr]
                 ELSE BFS_children(Append(fr, child), Tail(children), expl)
            ELSE BFS_children(fr, Tail(children), expl)

\* the node taken and the deque left, were the deque popped at its right end
pop_right(fr) == [node |-> fr[Len(fr)], rest |-> SubSeq(fr, 1, Len(fr) - 1)]

\* the node taken and the deque left, were the node read and not removed
popleft_keep(fr) == [node |-> Head(fr), rest |-> fr]

\* frontier.popleft(): the node returned and the deque left
popleft(fr) == [node |-> Head(fr), rest |-> Tail(fr)]

\* one pass of "while frontier:", or the return after it
BFS_Loop ==
    /\ pc = "loop"
    /\ method = "BFS"
    /\ IF frontier = <<>>
       THEN /\ result' = ReturnCount(explored)
            /\ pc' = "done"
            /\ UNCHANGED <<graph_dict, frontier, explored>>
       ELSE LET node == popleft(frontier).node
                out == BFS_children(popleft(frontier).rest, expand(graph_dict, node),
                                    explored_add(explored, node.state))
            IN /\ explored' = explored_add(explored, node.state)
               /\ graph_dict' = get_effect(graph_dict, node.state)
               /\ frontier' = out.frontier
               /\ IF out.found # None
                  THEN /\ result' = ReturnPair(out.found[1], explored')
                       /\ pc' = "done"
                  ELSE UNCHANGED <<result, pc>>
    /\ UNCHANGED <<graph0, method, initial, goal, hfun, run, first>>
    /\ UNCHANGED aux

\* ------------------------------------------------------------ PriorityQueue
\* The heap as the sequence of its (f(item), item) entries.
\* tuple order on entries: by f, then by Node.__lt__ (the states)
EntryLess(a, b) == Less(a[1], b[1]) \/ (a[1] = b[1] /\ a[2].state < b[2].state)

\* PriorityQueue.append(item), with fv = f(item)
PQ_append(q, fv, item) == Append(q, <<fv, item>>)

\* the place of the entry PriorityQueue.pop() returns: the least one
PQ_min(q) ==
    CHOOSE i \in 1..Len(q) :
        /\ \A j \in 1..Len(q) : ~EntryLess(q[j], q[i])
        /\ \A j \in 1..(i - 1) : EntryLess(q[i], q[j])

\* the heap without its entry at place i
PQ_remove(q, i) == [j \in 1..(Len(q) - 1) |-> IF j < i THEN q[j] ELSE q[j + 1]]

\* key in frontier
PQ_contains(q, key) == \E i \in 1..Len(q) : q[i][2].state = key.state

\* the place of the first entry whose item equals key
PQ_index(q, key) ==
    CHOOSE i \in 1..Len(q) :
        /\ q[i][2].state = key.state
        /\ \A j \in 1..(i - 1) : q[j][2].state # key.state

\* frontier[key]
PQ_getitem(q, key) == q[PQ_index(q, key)][1]

\* del frontier[key]
PQ_delitem(q, key) == PQ_remove(q, PQ_index(q, key))

\* -------------------------------------------------- best_first_graph_search
\* GraphProblem.h as handed over by the caller (lambda n: prob.h(n))
h(node) == hfun[node.state]

\* the f of greedy best-first search (f = h) and of astar_search (f = g + h)
f(node) == IF method = "GBFS" THEN h(node) ELSE Add(node.path_cost, h(node))

\* node = Node(problem.initial); frontier.append(node); explored = set()
BestFirst_Start ==
    /\ pc = "start"
    /\ method \in {"GBFS", "AS"}
    /\ LET node == Node(initial, None, None, 0)
       IN frontier' = PQ_append(<<>>, f(node), node)
    /\ explored' = NewExplored
    /\ pc' = "loop"
    /\ UNCHANGED <<graph_dict, graph0, method, initial, goal, hfun, result, run, first>>
    /\ UNCHANGED aux

\* the for loop, were a queued entry replaced by every child of its state
RECURSIVE BestFirst_children_always(_, _, _)
BestFirst_children_always(q, children, expl) ==
    IF children = <<>> THEN q
    ELSE LET child == Head(children)
             q1 == IF child.state \notin expl /\ ~PQ_contains(q, child)
                   THEN PQ_append(q, f(child), child)
                   ELSE IF PQ_contains(q, child)
                        THEN PQ_append(PQ_delitem(q, child), f(child), child)
                        ELSE q
         IN BestFirst_children_always(q1, Tail(children), expl)

\* the for loop over node.expand(problem): the heap as the loop leaves it
RECURSIVE BestFirst_children(_, _, _)
BestFirst_children(q, children, expl) ==
    IF children = <<>> THEN q
    ELSE LET child == Head(children)
             q1 == IF child.state \notin expl /\ ~PQ_contains(q, child)
                   THEN PQ_append(q, f(child), child)
                   ELSE IF PQ_contains(q, child)
                        THEN IF Less(f(child), PQ_getitem(q, child))
                             THEN PQ_append(PQ_delitem(q, child), f(child), child)
                             ELSE q
                        ELSE q
         IN BestFirst_children(q1, Tail(children), expl)

\* one pass of "while frontier:", or the return after it
BestFirst_Loop ==
    /\ pc = "loop"
    /\ method \in {"GBFS", "AS"}
    /\ IF frontier = <<>>
       THEN /\ result' = ReturnCount(explored)
            /\ pc' = "done"
            /\ UNCHANGED <<graph_dict, frontier, explored>>
       ELSE LET i == PQ_min(frontier)
                node == frontier[i][2]
                rest == PQ_remove(frontier, i)
            IN IF goal_test(node.state)
               THEN /\ result' = ReturnPair(node, explored)
                    /\ pc' = "done"
                    /\ frontier' = rest
                    /\ UNCHANGED <<graph_dict, explored>>
               ELSE /\ explored' = explored_add(explored, node.state)
                    /\ frontier' = BestFirst_children(rest, expand(graph_dict, node), explored')
                    /\ graph_dict' = get_effect(graph_dict, node.state)
                    /\ UNCHANGED <<result, pc>>
    /\ UNCHANGED <<graph0, method, initial, goal, hfun, run, first>>
    /\ UNCHANGED aux

\* ------------------------------------------------------------ the second run
\* the same search called again on the same problem and the same Graph object
Rerun ==
    /\ pc = "done"
    /\ run = 1
    /\ first' = result
    /\ run' = 2
    /\ result' = NoResult
    /\ pc' = "start"
    /\ UNCHANGED <<graph_dict, graph0, method, initial, goal, hfun, frontier, explored>>
    /\ UNCHANGED aux

Search ==
    \/ DFS_Start
    \/ DFS_Loop
    \/ BFS_Start
    \/ BFS_Loop
    \/ BestFirst_Start
    \/ BestFirst_Loop

Next ==
    \/ Connect1
    \/ NewProblem
    \/ Search
    \/ Rerun

Spec == Init /\ [][Next]_vars

\* breadth-first search alone, from origin 1, on larger graphs of unit-weight edges
ConnectBig == LoadEdge(BigNodes, BigEdges, {1})

NewProblemBFS == GraphProblem({1}, 1..BigNodes, {"BFS"})

NextBFS ==
    \/ ConnectBig
    \/ NewProblemBFS
    \/ BFS_Start
    \/ BFS_Loop

SpecBFS == Init /\ [][NextBFS]_vars

\* every search on graphs of unit-weight edges, run to its end: a search is one
\* sequential call, so a call that can take its next step takes it
ConnectUnit == LoadEdge(NumNodes, MaxEdges, {1})

NextFair ==
    \/ ConnectUnit
    \/ NewProblem
    \/ Search

FairSpec == Init /\ [][NextFair]_vars /\ WF_vars(Search)

\* every search for a goal that is no node of the graph: the search goes on
\* until the frontier is empty
NewProblemFar == GraphProblem(NodeIds, {NumNodes + 1}, {"DFS", "BFS", "GBFS", "AS"})

NextFar ==
    \/ Connect1
    \/ NewProblemFar
    \/ Search

SpecFar == Init /\ [][NextFar]_vars

\* ------------------------------------------------------------ GraphProblem.h
\* the coordinate pairs of the Nodes section
Coords == (0..MaxCoord) \X (0..MaxCoord)

\* the locations mappings: coordinates for some of the nodes, for all, or for none
LocationMaps == UNION {[D -> Coords] : D \in SUBSET NodeIds}

\* the goals handed to GraphProblem as a list
GoalLists == UNION {[1..n -> NodeIds] : n \in 0..MaxGoals}

\* distance(a, b): the straight-line distance of two points, held as its square
distance(a, b) == (a[1] - b[1]) * (a[1] - b[1]) + (a[2] - b[2]) * (a[2] - b[2])

\* int(d) of a non-negative float d held as its square: the root, truncated
int(d2) == CHOOSE r \in 0..d2 : r * r <= d2 /\ (r + 1) * (r + 1) > d2

\* the outcomes of a call: a returned value or a raised exception
Returns(v) == [kind |-> "return", value |-> v]
Raises(e) == [kind |-> e, value |-> 0]

\* min(...) of a non-empty sequence of integers
Min(seq) == CHOOSE x \in {seq[i] : i \in 1..Len(seq)} : \A i \in 1..Len(seq) : x <= seq[i]

\* GraphProblem.h(node) with self.graph.locations = locs and self.goal either
\* the list goals (list = TRUE) or the single state goals[1]; state is
\* node.state (or node itself when a state is passed)
GraphProblem_h(locs, list, goals, state) ==
    IF DOMAIN locs = {}
    THEN Returns(Inf)
    ELSE IF list
         THEN IF goals = <<>>
              THEN Raises("ValueError")
              ELSE IF state \notin DOMAIN locs
                      \/ \E i \in 1..Len(goals) : goals[i] \notin DOMAIN locs
                   THEN Raises("KeyError")
                   ELSE Returns(Min([i \in 1..Len(goals) |->
                                        int(distance(locs[state], locs[goals[i]]))]))
         ELSE IF state \notin DOMAIN locs \/ goals[1] \notin DOMAIN locs
              THEN Raises("KeyError")
              ELSE Returns(int(distance(locs[state], locs[goals[1]])))

\* graph_map.locations = nodes: the coordinates of the nodes the file lists
SetLocations ==
    /\ pc = "load"
    /\ hcall = NoCall
    /\ locations' \in LocationMaps
    /\ UNCHANGED <<graph_dict, graph0, pc, method, initial, goal, hfun, frontier,
                   explored, result, run, first, hcall, destinations, di, outputs,
                   directed, calls, file_nodes, file_edges>>

\* one call prob.h(node), for a problem with one goal or with a list of goals
CallH ==
    /\ pc = "load"
    /\ \E state \in NodeIds, list \in BOOLEAN, goals \in GoalLists :
          /\ ~list => Len(goals) = 1
          /\ LET out == GraphProblem_h(locations, list, goals, state)
             IN hcall' = [state |-> state, list |-> list, goals |-> goals,
                          kind |-> out.kind, value |-> out.value]
    /\ UNCHANGED <<graph_dict, graph0, pc, method, initial, goal, hfun, frontier,
                   explored, result, run, first, locations, destinations, di, outputs,
                   directed, calls, file_nodes, file_edges>>

NextH ==
    \/ SetLocations
    \/ CallH

SpecH == Init /\ [][NextH]_vars

\* ---------------------------------------------------------- runGraphSeacrh
\* the method tokens of the command line: the four known ones and another
Methods == {"DFS", "BFS", "GBFS", "AS", "XX"}

\* the Destinations line: one destination or more
DestinationLists == UNION {[1..n -> NodeIds] : n \in 1..MaxGoals}

\* the locations of a file that lists no node, or every node on the x axis
DriverLocations == {<<>>} \cup [NodeIds -> {c \in Coords : c[2] = 0}]

\* lambda n: prob.h(n), for the problem with the single goal g
DriverH(g) == [n \in NodeIds |-> GraphProblem_h(locations, FALSE, <<g>>, n).value]

\* filename and method from the command line, and what load_graph_from_file
\* returns with the graph: origin, destinations and the locations
Driver_Load ==
    /\ pc = "load"
    /\ hcall = NoCall
    /\ method' \in Methods
    /\ initial' \in NodeIds
    /\ destinations' \in DestinationLists
    /\ locations' \in DriverLocations
    /\ di' = 0
    /\ outputs' = <<>>
    /\ pc' = "driver"
    /\ UNCHANGED <<graph_dict, graph0, goal, hfun, frontier, explored, result, run,
                   first, hcall, directed, calls, file_nodes, file_edges>>

\* the head of "for goal in destinations": the loop ends, or takes up the next
\* goal, builds the problem and chooses the search; an unknown method is
\* printed and the loop continues
Driver_Next ==
    /\ pc = "driver"
    /\ IF di = Len(destinations)
       THEN /\ pc' = "end"
            /\ UNCHANGED <<goal, hfun, result, di, outputs>>
       ELSE LET g == destinations[di + 1]
            IN /\ di' = di + 1
               /\ goal' = g
               /\ result' = NoResult
               /\ IF method \in {"DFS", "BFS", "GBFS", "AS"}
                  THEN /\ hfun' = IF method \in {"GBFS", "AS"} THEN DriverH(g) ELSE hfun
                       /\ pc' = "start"
                       /\ UNCHANGED outputs
                  ELSE /\ outputs' = Append(outputs, [goal |-> g, what |-> "unknown method",
                                                      path |-> <<>>, count |-> 0])
                       /\ UNCHANGED <<hfun, pc>>
    /\ UNCHANGED <<graph_dict, graph0, method, initial, frontier, explored, run, first,
                   locations, hcall, destinations, directed, calls, file_nodes,
                   file_edges>>

\* "result, no_nodes_explored = <what the search returned>" and the report:
\* a pair unpacks and its path is printed (a Node is always true, so the
\* "No path found" branch is not taken); a bare int or a bare Node does not
\* unpack, and the TypeError ends the run
Driver_Handle ==
    /\ pc = "done"
    /\ di > 0
    /\ IF result.kind = "pair"
       THEN /\ outputs' = Append(outputs,
                              [goal |-> goal, what |-> "path",
                               path |-> path(result.node[1]),
                               count |-> result.count[1]])
            /\ pc' = "driver"
       ELSE /\ pc' = "aborted"
            /\ UNCHANGED outputs
    /\ UNCHANGED <<graph_dict, graph0, method, initial, goal, hfun, frontier, explored,
                   result, run, first, locations, hcall, destinations, di, directed,
                   calls, file_nodes, file_edges>>

NextDriver ==
    \/ ConnectUnit
    \/ Driver_Load
    \/ Driver_Next
    \/ Search
    \/ Driver_Handle

SpecDriver == Init /\ [][NextDriver]_vars

\* ------------------------------------------------- Graph(graph_dict, directed)
\* the orders in which a dict can hold the keys S
KeyOrders(S) ==
    {ks \in [1..Cardinality(S) -> S] : \A i, j \in 1..Cardinality(S) : i # j => ks[i] # ks[j]}

\* make_undirected's inner loop: connect1(b, a, dist) for the items of graph_dict[a]
RECURSIVE undirect_items(_, _, _)
undirect_items(d, a, items) ==
    IF items = <<>> THEN d
    ELSE undirect_items(connect1(d, Head(items)[1], a, Head(items)[2]), a, Tail(items))

\* Graph.make_undirected(), over the keys ks = list(self.graph_dict.keys())
RECURSIVE make_undirected(_, _)
make_undirected(d, ks) ==
    IF ks = <<>> THEN d
    ELSE make_undirected(undirect_items(d, Head(ks), d[Head(ks)]), Tail(ks))

\* Graph.connect, were the inverse link never added
connect_oneway(d, dir, A, B, dist) == connect1(d, A, B, dist)

\* Graph.connect(A, B, dist) on a Graph with self.directed = dir
connect(d, dir, A, B, dist) ==
    LET d1 == connect1(d, A, B, dist)
    IN IF ~dir THEN connect1(d1, B, A, dist) ELSE d1

\* one more entry graph_dict[a][b] = w of the dict handed to Graph(...): any
\* pair of nodes, a node with itself included
DictEntry ==
    /\ pc = "load"
    /\ EdgeCount(graph_dict) < MaxEntries
    /\ \E a \in NodeIds, b \in NodeIds, w \in Weights :
          /\ Edge(graph_dict, a, b) = None
          /\ graph_dict' = connect1(graph_dict, a, b, w)
    /\ graph0' = graph_dict'
    /\ UNCHANGED <<pc, method, initial, goal, hfun, frontier, explored, result, run, first>>
    /\ UNCHANGED aux

\* Graph.__init__(graph_dict, directed), the dict's keys held in any order
Graph_init ==
    /\ pc = "load"
    /\ \E dir \in BOOLEAN, ks \in KeyOrders(DOMAIN graph_dict) :
          /\ directed' = dir
          /\ graph_dict' = IF ~dir THEN make_undirected(graph_dict, ks) ELSE graph_dict
    /\ pc' = "graph"
    /\ UNCHANGED <<graph0, method, initial, goal, hfun, frontier, explored, result, run,
                   first, locations, hcall, destinations, di, outputs, calls, file_nodes,
                   file_edges>>

\* one call g.connect(A, B, dist) on the constructed Graph
Connect ==
    /\ pc = "graph"
    /\ calls < MaxCalls
    /\ \E A \in NodeIds, B \in NodeIds, dist \in Weights :
          graph_dict' = connect(graph_dict, directed, A, B, dist)
    /\ calls' = calls + 1
    /\ UNCHANGED <<graph0, pc, method, initial, goal, hfun, frontier, explored, result, run,
                   first, locations, hcall, destinations, di, outputs, directed,
                   file_nodes, file_edges>>

NextGraph ==
    \/ DictEntry
    \/ Graph_init
    \/ Connect

SpecGraph == Init /\ [][NextGraph]_vars

\* ------------------------------------------------------ load_graph_from_file
\* the Nodes sections: some of the nodes, each once, in any order, on the x axis
NodesSections ==
    UNION {{ns \in [1..n -> NodeIds \X {c \in Coords : c[2] = 0}] :
               \A i, j \in 1..n : i # j => ns[i][1] # ns[j][1]} : n \in 0..NumNodes}

\* the Edges sections: up to MaxLines lines "(n1,n2): cost", a pair of nodes
\* possibly declared on two lines
EdgesSections ==
    UNION {[1..n -> {t \in NodeIds \X NodeIds \X Weights : t[1] # t[2]}] : n \in 0..MaxLines}

\* edges.setdefault((n1, n2), cost), line by line: the edges dict as the
\* sequence of its items <<n1, n2, cost>>, a pair keeping its first cost
RECURSIVE edges_dict(_, _)
edges_dict(es, acc) ==
    IF es = <<>> THEN acc
    ELSE edges_dict(Tail(es),
                    IF \E i \in 1..Len(acc) : acc[i][1] = Head(es)[1] /\ acc[i][2] = Head(es)[2]
                    THEN acc
                    ELSE Append(acc, Head(es)))

\* for n, cost in edges.items(): if n[0] == node: graph_map.connect1(n[0], n[1], cost)
RECURSIVE connect_from(_, _, _)
connect_from(d, node, edges) ==
    IF edges = <<>> THEN d
    ELSE connect_from(IF Head(edges)[1] = node
                      THEN connect1(d, Head(edges)[1], Head(edges)[2], Head(edges)[3])
                      ELSE d,
                      node, Tail(edges))

\* for node in nodes: ...
RECURSIVE build_graph(_, _, _)
build_graph(d, ns, edges) ==
    IF ns = <<>> THEN d
    ELSE build_graph(connect_from(d, Head(ns)[1], edges), Tail(ns), edges)

\* the text file: its four sections
WriteFile ==
    /\ pc = "load"
    /\ graph_dict = <<>>
    /\ hcall = NoCall
    /\ file_nodes' \in NodesSections
    /\ file_edges' \in EdgesSections
    /\ initial' \in NodeIds
    /\ destinations' \in {ds \in DestinationLists : Len(ds) = 1}
    /\ pc' = "file"
    /\ UNCHANGED <<graph_dict, graph0, method, goal, hfun, frontier, explored, result, run,
                   first, locations, hcall, di, outputs, directed, calls>>

\* load_graph_from_file(filename): graph_map with its locations (origin and
\* destinations are returned as read)
load_graph_from_file ==
    /\ pc = "file"
    /\ graph_dict' = build_graph(<<>>, file_nodes, edges_dict(file_edges, <<>>))
    /\ graph0' = graph_dict'
    /\ locations' = [n \in {file_nodes[i][1] : i \in 1..Len(file_nodes)} |->
                        file_nodes[CHOOSE i \in 1..Len(file_nodes) : file_nodes[i][1] = n][2]]
    /\ pc' = "loaded"
    /\ UNCHANGED <<method, initial, goal, hfun, frontier, explored, result, run, first,
                   hcall, destinations, di, outputs, directed, calls, file_nodes,
                   file_edges>>

NextLoad ==
    \/ WriteFile
    \/ load_graph_from_file

SpecLoad == Init /\ [][NextLoad]_vars

\* ------------------------------------------------- the graph as constructed
\* the states of the graph the problem was built on, the origin among them
States0 == nodes(graph0) \cup {initial}

\* the states one edge away from a
Succ(a) == {b \in States0 : Edge(graph0, a, b) # None}

\* the states at most k edges away from a state of S
RECURSIVE Within(_, _)
Within(S, k) == IF k = 0 THEN S ELSE Within(S \cup UNION {Succ(a) : a \in S}, k - 1)

\* the states reachable from the origin, the origin included
Reach0 == Within({initial}, Cardinality(States0))

\* the least number of edges of a path from the origin to the goal
MinEdges0 == CHOOSE k \in 0..Cardinality(States0) :
                 /\ goal \in Within({initial}, k)
                 /\ \A j \in 0..(k - 1) : goal \notin Within({initial}, j)

\* the weight of edge a -> b as declared (0 is a weight), or Inf without an edge
Weight0(a, b) == IF Edge(graph0, a, b) = None THEN Inf ELSE Edge(graph0, a, b)[1]

\* the least of a non-empty set of costs
Least(S) == CHOOSE x \in S : \A y \in S : ~Less(y, x)

\* the least total weight of a path of at most k edges from a to b
RECURSIVE Dist(_, _, _)
Dist(a, b, k) ==
    IF k = 0 THEN (IF a = b THEN 0 ELSE Inf)
    ELSE Least({Dist(a, b, k - 1)} \cup
               {Add(Weight0(a, c), Dist(c, b, k - 1)) : c \in Succ(a)})

\* the least total weight of a path from a to the goal
MinCost0(a) == Dist(a, goal, Cardinality(States0))

\* h never overestimates the cost that remains
Admissible == \A n \in States0 : ~Less(MinCost0(n), hfun[n])

\* h(a) <= w(a, b) + h(b) along every edge
Consistent ==
    \A a \in States0 : \A b \in Succ(a) : ~Less(Add(Weight0(a, b), hfun[b]), hfun[a])

\* the states held in the frontier, entry by entry
FrontierStates ==
    [i \in 1..Len(frontier) |->
        IF method \in {"GBFS", "AS"} THEN frontier[i][2].state ELSE frontier[i].state]

\* --------------------------------------------------------------------- C1
\* C1: when the goal is reachable, breadth_first_graph_search returns a node
\* whose path has the least number of edges of any path from origin to goal.
C1_BFSFewestEdges ==
    (pc = "done" /\ method = "BFS" /\ goal \in Reach0)
        => /\ result.node # None
           /\ result.node[1].state = goal
           /\ Len(path(result.node[1])) - 1 = MinEdges0

\* a two-edge path was returned although the origin's last neighbor starts a
\* three-edge path to the goal
C1_Witness ==
    /\ pc = "done" /\ method = "BFS" /\ result.kind = "pair"
    /\ Len(path(result.node[1])) = 3
    /\ \E q \in Succ(initial), p2 \in States0 :
          /\ q = Keys(graph0[initial])[Len(graph0[initial])]
          /\ q # path(result.node[1])[2]
          /\ p2 \in Succ(q) /\ p2 \notin Succ(initial) /\ p2 # initial
          /\ goal \in Succ(p2)

\* --------------------------------------------------------------------- C2
\* C2: with non-negative weights (zero included) and an admissible, consistent
\* h, astar_search with a reachable goal returns a node whose path_cost is the
\* least total weight of any path from origin to goal.
C2_AStarLeastCost ==
    (pc = "done" /\ method = "AS" /\ goal \in Reach0 /\ Admissible /\ Consistent)
        => /\ result.node # None
           /\ result.node[1].path_cost = MinCost0(initial)

\* every declared weight is positive
PositiveWeights == \A a \in States0 : \A b \in Succ(a) : Weight0(a, b) > 0

\* the same statement for graphs without a zero weight (it holds there)
AStarLeastCost_PositiveWeights == PositiveWeights => C2_AStarLeastCost

\* --------------------------------------------------------------------- C3
\* C3: every successful search returns the pair (goal node, explored count),
\* also when the initial state is a goal; only a failed search returns the
\* count alone.
C3_SuccessReturnsPair ==
    pc = "done" => /\ result.node # None => result.kind = "pair"
                   /\ result.node = None => result.kind = "count"

\* --------------------------------------------------------------------- C4
\* C4: in every reachable state of the three searches no state occurs in more
\* than one frontier entry.
C4_NoStateTwiceInFrontier ==
    \A i \in 1..Len(frontier) : \A j \in 1..Len(frontier) :
        i # j => FrontierStates[i] # FrontierStates[j]

\* a state b is queued once, under parent p, although another state a with an
\* edge a -> b has been expanded as well
C4_Witness ==
    /\ pc = "loop"
    /\ \E i \in 1..Len(frontier) :
          LET n == IF method \in {"GBFS", "AS"} THEN frontier[i][2] ELSE frontier[i]
          IN /\ n.parent # None
             /\ \E a \in explored : a # n.parent[1].state /\ n.state \in Succ(a)

\* --------------------------------------------------------------------- C5
\* C5: when the goal is unreachable from the origin, each search ends returning
\* no node and an explored count equal to the number of states reachable from
\* the origin (origin included).
C5_UnreachableCountsReachable ==
    (pc = "done" /\ goal \notin Reach0)
        => /\ result.kind = "count"
           /\ result.node = None
           /\ result.count = Some(Cardinality(Reach0))

\* a failed search over a cycle between two states
C5_Witness ==
    /\ pc = "done" /\ goal \notin Reach0 /\ result.kind = "count"
    /\ Cardinality(Reach0) = 2
    /\ \E b \in Succ(initial) : b # initial /\ initial \in Succ(b)

\* --------------------------------------------------------------------- C6
\* C6: the explored count a search returns, on success or failure, never
\* exceeds the number of distinct states of the graph.
C6_CountWithinStates ==
    (pc = "done" /\ result.count # None) => result.count[1] <= Cardinality(States0)

\* a failed search that explored every state of a graph of two or more states
C6_Witness ==
    /\ pc = "done" /\ result.kind = "count"
    /\ result.count = Some(Cardinality(States0))
    /\ Cardinality(States0) >= 2

\* --------------------------------------------------------------------- C7
\* C7: on every finite graph, cyclic ones included, each search eventually
\* terminates: a search that has been called returns.
C7_Terminates == (pc = "start") ~> (pc = "done")

\* why it does: every pass of the loop either returns or adds a state not yet
\* explored to the explored set, which stays within the graph's states
LoopVariant ==
    [][pc = "loop" =>
          \/ pc' = "done"
          \/ /\ explored \subseteq explored'
             /\ explored' # explored
             /\ explored' \subseteq States0]_vars

\* a search that ran over a cycle and ended with the frontier empty
C7_Witness ==
    /\ pc = "done" /\ result.kind = "count"
    /\ \E a \in explored, b \in explored : a # b /\ b \in Succ(a) /\ a \in Succ(b)

\* --------------------------------------------------------------------- C8
\* C8: a search leaves the Graph's adjacency mapping unchanged: the keys and
\* every neighbor-to-weight entry of graph_dict are those of before the search.
C8_GraphUnchanged == pc \in {"loop", "done"} => graph_dict = graph0

\* --------------------------------------------------------------------- C9
\* C9: running the same search again on the same problem and the same Graph
\* object returns the same path and the same explored count as the first run.
C9_SecondRunSame == (pc = "done" /\ run = 2) => result = first

\* the second run ended with a path, on a graph_dict the first run had changed
C9_Witness ==
    /\ pc = "done" /\ run = 2 /\ result.kind = "pair"
    /\ graph_dict # graph0
    /\ Len(path(result.node[1])) >= 2

\* -------------------------------------------------------------------- C10
\* C10: path_cost(c, A, action, B) is c + w for every edge A -> B of weight
\* w >= 0 (w = 0 included), and is infinite exactly when there is no edge A -> B.
C10_PathCost ==
    \A A \in NodeIds, B \in NodeIds, c \in 0..MaxWeight :
        /\ Edge(graph_dict, A, B) # None
              => path_cost(graph_dict, c, A, B, B) = c + Edge(graph_dict, A, B)[1]
        /\ path_cost(graph_dict, c, A, B, B) = Inf <=> Edge(graph_dict, A, B) = None

\* -------------------------------------------------------------------- C11
\* the states a call of h needs coordinates for: the node's and every goal's
HStates == {hcall.state} \cup {hcall.goals[i] : i \in 1..Len(hcall.goals)}

\* C11: GraphProblem.h returns np.inf, and raises nothing, whenever the
\* locations lack the coordinates of the node's state or of a goal state, a
\* non-empty locations mapping without that entry included.
C11_HInfWithoutCoordinates ==
    (hcall.kind # "none" /\ ~(HStates \subseteq DOMAIN locations))
        => (hcall.kind = "return" /\ hcall.value = Inf)

\* the part of it that holds: without any locations h returns np.inf
HInfWithoutLocations ==
    (hcall.kind # "none" /\ DOMAIN locations = {})
        => (hcall.kind = "return" /\ hcall.value = Inf)

\* -------------------------------------------------------------------- C12
\* C12: in the driver's loop over the destinations a failed search or an
\* unknown method token is reported for that destination only and every
\* remaining destination is still processed: no outcome of a search aborts
\* the run, which ends with one report per destination, in order.
C12_DriverProcessesAll ==
    /\ pc # "aborted"
    /\ pc = "end" => /\ Len(outputs) = Len(destinations)
                     /\ \A i \in 1..Len(outputs) : outputs[i].goal = destinations[i]

\* the part of it that holds: an unknown method token is reported for every
\* destination, and the run ends
UnknownMethodProcessesAll ==
    (method = "XX" /\ pc \in {"driver", "end"})
        => /\ pc = "end" => di = Len(destinations)
           /\ Len(outputs) = di
           /\ \A i \in 1..di : /\ outputs[i].goal = destinations[i]
                               /\ outputs[i].what = "unknown method"

\* a run that ended with a path reported for each of two destinations
DriverEndsWithTwoPaths ==
    /\ pc = "end" /\ Len(outputs) = 2
    /\ \A i \in 1..2 : outputs[i].what = "path" /\ Len(outputs[i].path) >= 2

\* -------------------------------------------------------------------- C13
\* C13: for a Graph built with directed=False, after construction and after
\* any sequence of connect calls, the adjacency is symmetric with equal
\* weights: B is among A's links with weight w exactly when A is among B's
\* links with weight w.
C13_UndirectedSymmetric ==
    (pc = "graph" /\ ~directed)
        => \A A \in NodeIds, B \in NodeIds : Edge(graph_dict, A, B) = Edge(graph_dict, B, A)

\* an undirected Graph built from a dict holding A -> B and B -> A with two
\* different weights, on which connect has since set a third weight
C13_Witness ==
    /\ pc = "graph" /\ ~directed /\ calls > 0
    /\ \E A \in NodeIds, B \in NodeIds :
          /\ A # B
          /\ Edge(graph0, A, B) # None /\ Edge(graph0, B, A) # None
          /\ Edge(graph0, A, B) # Edge(graph0, B, A)
          /\ Edge(graph_dict, A, B) \notin {Edge(graph0, A, B), Edge(graph0, B, A)}

\* -------------------------------------------------------------------- C14
\* the costs the Edges section declares for the edge a -> b
Declared(a, b) ==
    {file_edges[i][3] : i \in {j \in 1..Len(file_edges) :
                                  file_edges[j][1] = a /\ file_edges[j][2] = b}}

\* C14: the graph load_graph_from_file returns holds exactly the directed
\* edges the Edges section declares, each with a declared weight and in the
\* declared direction only: none is dropped, whatever the Nodes section lists,
\* and none is added.
C14_LoadedEdgesAsDeclared ==
    pc = "loaded"
        => \A a \in NodeIds, b \in NodeIds :
              /\ Declared(a, b) # {} => Edge(graph_dict, a, b) # None
              /\ Edge(graph_dict, a, b) # None => Edge(graph_dict, a, b)[1] \in Declared(a, b)

\* the parts of it that hold: no edge is added, and the edges declared from a
\* node the Nodes section lists are all there with their first declared cost
LoadedEdgesOfListedNodes ==
    pc = "loaded"
        => \A a \in NodeIds, b \in NodeIds :
              /\ Edge(graph_dict, a, b) # None => Edge(graph_dict, a, b)[1] \in Declared(a, b)
              /\ (Declared(a, b) # {} /\ a \in DOMAIN locations)
                    => \E i \in 1..Len(file_edges) :
                          /\ file_edges[i][1] = a /\ file_edges[i][2] = b
                          /\ Edge(graph_dict, a, b) = Some(file_edges[i][3])
                          /\ \A j \in 1..(i - 1) : file_edges[j][1] # a \/ file_edges[j][2] # b

\* -------------------------------------------------------------------- C15
\* C15: in best_first_graph_search, when a generated child's state already has
\* a frontier entry, the entry is replaced by the child exactly when f(child)
\* is strictly less than the f queued with the entry (otherwise the entry
\* stays as it is); hence the f queued for a state never increases while the
\* state stays in the frontier.
C15_ReplacedIffStrictlyLess ==
    [][(pc = "loop" /\ pc' = "loop" /\ method \in {"GBFS", "AS"} /\ frontier # <<>>)
          => LET i0 == PQ_min(frontier)
                 children == expand(graph_dict, frontier[i0][2])
             IN /\ \A i \in (1..Len(frontier)) \ {i0} : \A k \in 1..Len(children) :
                      children[k].state = frontier[i][2].state
                          => /\ PQ_contains(frontier', children[k])
                             /\ frontier'[PQ_index(frontier', children[k])]
                                   = IF Less(f(children[k]), frontier[i][1])
                                     THEN <<f(children[k]), children[k]>>
                                     ELSE frontier[i]
                /\ \A i \in 1..Len(frontier) : \A j \in 1..Len(frontier') :
                      frontier[i][2].state = frontier'[j][2].state
                          => ~Less(frontier[i][1], frontier'[j][1])]_vars

\* a frontier entry for a neighbor of the origin that now hangs two edges deep:
\* queued when the origin was expanded, replaced when a cheaper way was found
C15_Witness ==
    /\ pc = "loop" /\ method \in {"GBFS", "AS"}
    /\ \E i \in 1..Len(frontier) :
          /\ frontier[i][2].depth = 2
          /\ frontier[i][2].state # initial
          /\ Edge(graph0, initial, frontier[i][2].state) # None

\* -------------------------------------------------------------------- C16
\* the node the next pass of the loop takes from the frontier
Popped ==
    IF method = "DFS" THEN pop(frontier).node
    ELSE IF method = "BFS" THEN popleft(frontier).node
    ELSE frontier[PQ_min(frontier)][2]

\* the state of a frontier entry
EntryState(e) == IF method \in {"GBFS", "AS"} THEN e[2].state ELSE e.state

\* C16: in every search the explored set only grows and a state in it is
\* never inserted into the frontier again, so each state is expanded at most
\* once per search: the node a pass expands has a state not yet explored, and
\* no entry a pass adds to the frontier has an explored state.
C16_ExploredOnlyGrows ==
    [][pc = "loop"
          => /\ explored \subseteq explored'
             /\ (frontier # <<>> /\ (method = "BFS" \/ ~goal_test(Popped.state)))
                   => /\ Popped.state \notin explored
                      /\ explored' = explored \cup {Popped.state}
             /\ \A j \in 1..Len(frontier') :
                   (\A i \in 1..Len(frontier) : frontier[i] # frontier'[j])
                       => EntryState(frontier'[j]) \notin explored']_vars

\* breadth-first search expanded the origin, then its first neighbor s, then
\* its second neighbor a, and a -> s closes a cheaper way to s than the edge
\* taken: s is explored and not in the frontier again
C16_Witness ==
    /\ method = "BFS" /\ pc \in {"loop", "done"}
    /\ initial \in DOMAIN graph0
    /\ Len(graph0[initial]) = 2
    /\ LET s == graph0[initial][1][1]
           a == graph0[initial][2][1]
       IN /\ {s, a} \subseteq explored
          /\ Edge(graph0, a, s) # None
          /\ Edge(graph0, a, s)[1] > 0 /\ graph0[initial][2][2] > 0
          /\ graph0[initial][2][2] + Edge(graph0, a, s)[1] < graph0[initial][1][2]
          /\ \A i \in 1..Len(frontier) : frontier[i].state # s

\* -------------------------------------------------------------------- C17
\* C17: breadth-first search tests the initial state before its loop and each
\* child before enqueueing it, so no frontier entry ever holds a goal state,
\* and a pass that generates a child with a goal state returns that child,
\* as a child of the node the pass expands, in the same step.
C17_BFSGoalNeverQueued ==
    [][/\ (method' = "BFS" /\ pc' \in {"loop", "done"})
             => \A i \in 1..Len(frontier') : ~goal_test(frontier'[i].state)
       /\ (method = "BFS" /\ pc = "loop" /\ frontier # <<>>
              /\ \E k \in 1..Len(expand(graph_dict, Popped)) :
                    goal_test(expand(graph_dict, Popped)[k].state))
             => /\ pc' = "done"
                /\ result'.kind = "pair"
                /\ goal_test(result'.node[1].state)
                /\ result'.node[1].parent = Some(Popped)]_vars

\* breadth-first search returned a goal two edges from the origin, generated
\* by the pass that returned, with other entries still queued
C17_Witness ==
    /\ method = "BFS" /\ pc = "done" /\ run = 1
    /\ result.kind = "pair"
    /\ result.node[1].depth = 2
    /\ frontier # <<>>

\* -------------------------------------------------------------------- C18
\* C18: whenever a search returns a node, node.path() starts at
\* problem.initial, ends at a state that passes goal_test, and every two
\* consecutive states of it are joined by a directed edge of the graph; this
\* holds for greedy search also when its path is not a least-cost one.
C18_ReturnedPathIsValid ==
    (pc = "done" /\ result.node # None)
        => LET p == path(result.node[1])
           IN /\ p[1] = initial
              /\ goal_test(p[Len(p)])
              /\ \A i \in 1..(Len(p) - 1) : Edge(graph0, p[i], p[i + 1]) # None

\* greedy search returned a path that costs more than the cheapest one, on a
\* graph of positive weights
C18_Witness ==
    /\ pc = "done" /\ method = "GBFS" /\ result.kind = "pair"
    /\ PositiveWeights
    /\ Len(path(result.node[1])) >= 2
    /\ Less(MinCost0(initial), result.node[1].path_cost)

\* -------------------------------------------------------------------- C19
\* C19: at every loop-iteration boundary of the three searches the explored
\* set and the states held in the frontier are disjoint.
C19_ExploredFrontierDisjoint ==
    pc = "loop" => \A i \in 1..Len(frontier) : FrontierStates[i] \notin explored

\* a loop boundary with entries queued and two explored states on a cycle:
\* the one expanded second generated the first again
C19_Witness ==
    /\ pc = "loop" /\ frontier # <<>>
    /\ \E a \in explored, b \in explored :
          a # b /\ Edge(graph0, a, b) # None /\ Edge(graph0, b, a) # None

\* -------------------------------------------------------------------- C20
\* C20: the explored set never contains a goal state, so the explored count of
\* a successful search does not count the goal: it is the number of explored
\* states other than the goal, and 0 when depth-first or best-first search
\* starts at a goal.
C20_GoalNeverExplored ==
    /\ goal \notin explored
    /\ (pc = "done" /\ result.kind = "pair")
          => /\ result.count = Some(Cardinality(explored \ {goal}))
             /\ initial = goal => result.count = Some(0)

\* depth-first or best-first search started at a goal that has outgoing edges
\* and returned the count 0
C20_Witness ==
    /\ pc = "done" /\ method # "BFS" /\ run = 1
    /\ initial = goal
    /\ initial \in DOMAIN graph0
    /\ result.kind = "pair" /\ result.count = Some(0)
====
